---- MODULE Spec2Model ----
(***************************************************************************)
(* Model of the DMA transfer controller in                                 *)
(* "YOLO System/ZCU102_HW/main.c": configuration lookup, engine            *)
(* initialisation, one-time population and cache flush of TxBuffer, and    *)
(* the endless start / poll-with-timeout service loop.                     *)
(*                                                                         *)
(* The Xilinx driver calls (XAxiDma_*, Xil_DCacheFlushRange, usleep,       *)
(* xil_printf) are the environment: their return values are drawn          *)
(* nondeterministically, the DMA engine finishes a running transfer at an  *)
(* arbitrary moment, and every call and every printed message is recorded  *)
(* in the history variable trace.                                          *)
(***************************************************************************)
EXTENDS Integers, Sequences, FiniteSets, TLC

\* ---------------------------------------------------------------- bounds
\* main.c:15 sets 173056 words; scaled down.
IMG_LENGTH == 2
\* main.c:16 sets 1000000U checks; scaled down.
POLL_TIMEOUT_COUNTER == 3
\* Largest payload word of hex_values (uint32_t in the source).
MaxWord == 1
\* Number of XAxiDma_SimpleTransfer calls explored in one run.
MaxAttempts == 3

\* ------------------------------------------------------------- constants
\* sizeof(uint32_t)
WordSize == 4
\* xstatus.h codes compared at main.c:41 and main.c:58
XST_SUCCESS == 0
XST_FAILURE == 1
XST_INVALID_PARAM == 15

StatusCodes == {XST_SUCCESS, XST_FAILURE, XST_INVALID_PARAM}
Words == 0..MaxWord
BufIdx == 0..(IMG_LENGTH - 1)

VARIABLES
    pc,          \* position of main()
    DMA_Cfg,     \* result of XAxiDma_LookupConfig: "NULL" or "cfg"
    AxiDma,      \* driver instance: "uninitialized" or "initialized"
    status,      \* int status
    i,           \* index of the copy loop
    hex_values,  \* source payload table (img2.h), read only
    TxBuffer,    \* staging buffer as the processor sees it (through the cache)
    mem,         \* the same address range in physical memory, as the DMA reads it
    TimeOut,     \* int TimeOut, the remaining poll budget
    engineBusy,  \* hardware: a memory-to-device transfer is running
    starts,      \* arguments (and payload in memory) of every SimpleTransfer call
    trace,       \* every driver call and every printed message, in order
    ret          \* return value of main(), "none" while it runs

vars == <<pc, DMA_Cfg, AxiDma, status, i, hex_values, TxBuffer, mem, TimeOut,
          engineBusy, starts, trace, ret>>

\* Messages of the diagnostic sink (xil_printf), by the event they report.
StatusEvents == {"dma_config_missing", "dma_init_ok", "dma_init_failed",
                 "transfer_started", "transfer_start_failed",
                 "transfer_completed", "transfer_timed_out"}
SinkMessages == StatusEvents \cup {"welcome", "image_sent"}

\* Driver calls recorded in trace; XAxiDma_Busy is recorded with its result.
DriverCalls == {"LookupConfig", "CfgInitialize", "write", "DCacheFlushRange",
                "SimpleTransfer", "Busy_true", "Busy_false", "usleep"}

\* ------------------------------------------------- expressions of main()
\* Variant: the NULL check always passes.
ConfigMissing_Never(cfg) == FALSE

\* main.c:35  if (!DMA_Cfg)
ConfigMissing(cfg) == cfg = "NULL"

\* Variant: only the code XST_FAILURE is taken as a failure.
InitFailed_OnlyFailure(s) == s = XST_FAILURE

\* main.c:41  if (status != XST_SUCCESS) after XAxiDma_CfgInitialize
InitFailed(s) == s # XST_SUCCESS

\* Variant: only the code XST_FAILURE is taken as a rejection.
StartFailed_OnlyFailure(s) == s = XST_FAILURE

\* main.c:58  if (status != XST_SUCCESS) after XAxiDma_SimpleTransfer
StartFailed(s) == s # XST_SUCCESS

\* Variant: the copy loop stops one word early.
CopyCond_OneShort(k) == k < IMG_LENGTH - 1

\* main.c:49  i < IMG_LENGTH
CopyCond(k) == k < IMG_LENGTH

\* Variant: the length is given in words instead of bytes.
BufferBytes_InWords == IMG_LENGTH

\* main.c:54 and main.c:57  IMG_LENGTH * sizeof(uint32_t)
BufferBytes == IMG_LENGTH * WordSize

\* main.c:57  the arguments of XAxiDma_SimpleTransfer
TransferArgs == [addr |-> "TxBuffer", len |-> BufferBytes,
                 dir |-> "XAXIDMA_DMA_TO_DEVICE"]

\* Variant: the budget of an attempt starts one below the full budget.
InitialBudget_Short == POLL_TIMEOUT_COUNTER - 1

\* main.c:65  int TimeOut = POLL_TIMEOUT_COUNTER
InitialBudget == POLL_TIMEOUT_COUNTER

\* Variant: the poll loop gives up one check early.
WhileCond_OffByOne(t) == t > 1

\* main.c:66  while (TimeOut)
WhileCond(t) == t # 0

\* main.c:71  TimeOut--
Decrement(t) == t - 1

\* Variant: a budget of one left is already taken as a timeout.
TimedOutCond_OffByOne(t) == t <= 1

\* main.c:75  if (TimeOut == 0)
TimedOutCond(t) == t = 0

\* Xil_DCacheFlushRange(addr, len): write back every cached word of the range.
FlushRange(m, cache, len) ==
    [k \in BufIdx |-> IF k * WordSize < len THEN cache[k] ELSE m[k]]

\* the calls and messages of a failing step, then return XST_FAILURE
ReturnFailure(calls) ==
    /\ trace' = trace \o calls
    /\ pc' = "exit"
    /\ ret' = "XST_FAILURE"

\* ------------------------------------------------------------------ Init
Init ==
    /\ pc = "lookup"
    /\ DMA_Cfg = "NULL"
    /\ AxiDma = "uninitialized"
    /\ status = 0
    /\ i = 0
    /\ hex_values \in [BufIdx -> Words]
    /\ TxBuffer = [k \in BufIdx |-> 0]
    /\ mem = [k \in BufIdx |-> 0]
    /\ TimeOut = 0
    /\ engineBusy = FALSE
    /\ starts = <<>>
    /\ trace = <<>>
    /\ ret = "none"

\* --------------------------------------------------------------- actions
\* main.c:31-38  banner, XAxiDma_LookupConfig, NULL check
LookupConfig ==
    /\ pc = "lookup"
    /\ \E cfg \in {"NULL", "cfg"} :
        /\ DMA_Cfg' = cfg
        /\ IF ConfigMissing(cfg)
           THEN ReturnFailure(<<"welcome", "LookupConfig", "dma_config_missing">>)
           ELSE /\ trace' = trace \o <<"welcome", "LookupConfig">>
                /\ pc' = "init"
                /\ ret' = ret
    /\ UNCHANGED <<AxiDma, status, i, hex_values, TxBuffer, mem, TimeOut,
                   engineBusy, starts>>

\* main.c:40-46  XAxiDma_CfgInitialize and its status check
CfgInitialize ==
    /\ pc = "init"
    /\ \E s \in StatusCodes :
        /\ status' = s
        /\ IF InitFailed(s)
           THEN /\ ReturnFailure(<<"CfgInitialize", "dma_init_failed">>)
                /\ UNCHANGED AxiDma
           ELSE /\ trace' = trace \o <<"CfgInitialize", "dma_init_ok">>
                /\ AxiDma' = "initialized"
                /\ pc' = "copy"
                /\ ret' = ret
    /\ i' = 0
    /\ UNCHANGED <<DMA_Cfg, hex_values, TxBuffer, mem, TimeOut, engineBusy,
                   starts>>

\* Variant: the source word is read one index too far.
CopyWord_WrongIndex ==
    /\ pc = "copy"
    /\ CopyCond(i)
    /\ TxBuffer' = [TxBuffer EXCEPT ![i] = hex_values[(i + 1) % IMG_LENGTH]]
    /\ i' = i + 1
    /\ trace' = Append(trace, "write")
    /\ UNCHANGED <<pc, DMA_Cfg, AxiDma, status, hex_values, mem, TimeOut,
                   engineBusy, starts, ret>>

\* main.c:49-51  one iteration of the copy loop
CopyWord ==
    /\ pc = "copy"
    /\ CopyCond(i)
    /\ TxBuffer' = [TxBuffer EXCEPT ![i] = hex_values[i]]
    /\ i' = i + 1
    /\ trace' = Append(trace, "write")
    /\ UNCHANGED <<pc, DMA_Cfg, AxiDma, status, hex_values, mem, TimeOut,
                   engineBusy, starts, ret>>

\* main.c:49,54  the copy loop ends and the buffer range is flushed
DCacheFlushRange ==
    /\ pc = "copy"
    /\ ~CopyCond(i)
    /\ mem' = FlushRange(mem, TxBuffer, BufferBytes)
    /\ trace' = Append(trace, "DCacheFlushRange")
    /\ pc' = "loop"
    /\ UNCHANGED <<DMA_Cfg, AxiDma, status, i, hex_values, TxBuffer, TimeOut,
                   engineBusy, starts, ret>>

\* main.c:55-65  XAxiDma_SimpleTransfer, its status check, budget reset
SimpleTransfer ==
    /\ pc = "loop"
    /\ Len(starts) < MaxAttempts
    /\ starts' = Append(starts, [args |-> TransferArgs, payload |-> mem,
                                 engineWasBusy |-> engineBusy])
    /\ \E s \in StatusCodes :
        /\ status' = s
        /\ IF StartFailed(s)
           THEN /\ ReturnFailure(<<"SimpleTransfer", "transfer_start_failed">>)
                /\ UNCHANGED <<TimeOut, engineBusy>>
           ELSE /\ trace' = Append(trace, "SimpleTransfer")
                /\ engineBusy' = TRUE
                /\ TimeOut' = InitialBudget
                /\ pc' = "poll"
                /\ ret' = ret
    /\ UNCHANGED <<DMA_Cfg, AxiDma, i, hex_values, TxBuffer, mem>>

\* Variant: the break after the completion message is missing.
PollBusy_NoBreak ==
    /\ pc = "poll"
    /\ IF WhileCond(TimeOut)
       THEN /\ IF ~engineBusy
               THEN trace' = trace \o <<"Busy_false", "transfer_completed">>
               ELSE trace' = Append(trace, "Busy_true")
            /\ pc' = "wait"
       ELSE /\ pc' = "check"
            /\ trace' = trace
    /\ UNCHANGED <<DMA_Cfg, AxiDma, status, i, hex_values, TxBuffer, mem,
                   TimeOut, engineBusy, starts, ret>>

\* main.c:66-70  loop test, XAxiDma_Busy, completion message and break
PollBusy ==
    /\ pc = "poll"
    /\ IF WhileCond(TimeOut)
       THEN IF ~engineBusy
            THEN /\ trace' = trace \o <<"Busy_false", "transfer_completed">>
                 /\ pc' = "check"
            ELSE /\ trace' = Append(trace, "Busy_true")
                 /\ pc' = "wait"
       ELSE /\ pc' = "check"
            /\ trace' = trace
    /\ UNCHANGED <<DMA_Cfg, AxiDma, status, i, hex_values, TxBuffer, mem,
                   TimeOut, engineBusy, starts, ret>>

\* main.c:71-72  TimeOut--; usleep(1U)
DecrementAndSleep ==
    /\ pc = "wait"
    /\ TimeOut' = Decrement(TimeOut)
    /\ trace' = Append(trace, "usleep")
    /\ pc' = "poll"
    /\ UNCHANGED <<DMA_Cfg, AxiDma, status, i, hex_values, TxBuffer, mem,
                   engineBusy, starts, ret>>

\* Variant: the service loop is left after the first successful transfer and
\* main goes on to the idle loop of main.c:83.
CheckTimeOut_OneShot ==
    /\ pc = "check"
    /\ IF TimedOutCond(TimeOut)
       THEN ReturnFailure(<<"transfer_timed_out">>)
       ELSE /\ trace' = Append(trace, "image_sent")
            /\ pc' = "idle"
            /\ ret' = ret
    /\ UNCHANGED <<DMA_Cfg, AxiDma, status, i, hex_values, TxBuffer, mem,
                   TimeOut, engineBusy, starts>>

\* Variant: the service loop begins before the copy loop, so every iteration
\* populates and flushes the buffer again.
CheckTimeOut_Repopulate ==
    /\ pc = "check"
    /\ IF TimedOutCond(TimeOut)
       THEN /\ ReturnFailure(<<"transfer_timed_out">>)
            /\ i' = i
       ELSE /\ trace' = Append(trace, "image_sent")
            /\ pc' = "copy"
            /\ i' = 0
            /\ ret' = ret
    /\ UNCHANGED <<DMA_Cfg, AxiDma, status, hex_values, TxBuffer, mem,
                   TimeOut, engineBusy, starts>>

\* Variant: the timeout is reported but the service loop goes on.
CheckTimeOut_NoReturn ==
    /\ pc = "check"
    /\ IF TimedOutCond(TimeOut)
       THEN trace' = Append(trace, "transfer_timed_out")
       ELSE trace' = Append(trace, "image_sent")
    /\ pc' = "loop"
    /\ ret' = ret
    /\ UNCHANGED <<DMA_Cfg, AxiDma, status, i, hex_values, TxBuffer, mem,
                   TimeOut, engineBusy, starts>>

\* main.c:75-81  timeout check, final message, next iteration
CheckTimeOut ==
    /\ pc = "check"
    /\ IF TimedOutCond(TimeOut)
       THEN ReturnFailure(<<"transfer_timed_out">>)
       ELSE /\ trace' = Append(trace, "image_sent")
            /\ pc' = "loop"
            /\ ret' = ret
    /\ UNCHANGED <<DMA_Cfg, AxiDma, status, i, hex_values, TxBuffer, mem,
                   TimeOut, engineBusy, starts>>

\* The DMA engine finishes the running transfer (what XAxiDma_Busy reads).
EngineDone ==
    /\ engineBusy
    /\ engineBusy' = FALSE
    /\ UNCHANGED <<pc, DMA_Cfg, AxiDma, status, i, hex_values, TxBuffer, mem,
                   TimeOut, starts, trace, ret>>

Next ==
    \/ LookupConfig
    \/ CfgInitialize
    \/ CopyWord
    \/ DCacheFlushRange
    \/ SimpleTransfer
    \/ PollBusy
    \/ DecrementAndSleep
    \/ CheckTimeOut
    \/ EngineDone

Spec == Init /\ [][Next]_vars

TypeOK ==
    /\ pc \in {"lookup", "init", "copy", "loop", "poll", "wait", "check", "exit"}
    /\ DMA_Cfg \in {"NULL", "cfg"}
    /\ AxiDma \in {"uninitialized", "initialized"}
    /\ status \in StatusCodes
    /\ i \in 0..IMG_LENGTH
    /\ hex_values \in [BufIdx -> Words]
    /\ TxBuffer \in [BufIdx -> Words]
    /\ mem \in [BufIdx -> Words]
    /\ TimeOut \in 0..POLL_TIMEOUT_COUNTER
    /\ engineBusy \in BOOLEAN
    /\ ret \in {"none", "XST_FAILURE"}
    /\ \A j \in 1..Len(trace) : trace[j] \in SinkMessages \cup DriverCalls

\* ------------------------------------------------ reading the history
TraceIdx == 1..Len(trace)
Positions(e) == {j \in TraceIdx : trace[j] = e}
Occurs(e) == Positions(e) # {}

\* Attempts are numbered by their SimpleTransfer call, 1..NumAttempts.
NumAttempts == Cardinality(Positions("SimpleTransfer"))
Attempts == 1..NumAttempts
AttemptOf(j) == Cardinality({k \in Positions("SimpleTransfer") : k <= j})
InAttempt(a, e) == {j \in Positions(e) : AttemptOf(j) = a}
CountIn(a, e) == Cardinality(InAttempt(a, e))

Started(a) == CountIn(a, "transfer_start_failed") = 0
Checks(a) == CountIn(a, "Busy_true") + CountIn(a, "Busy_false")
Waits(a) == CountIn(a, "usleep")
AllBusy(a) == CountIn(a, "Busy_false") = 0
Completed(a) == CountIn(a, "transfer_completed") = 1
TimedOut(a) == CountIn(a, "transfer_timed_out") = 1
\* The poll loop of attempt a has been left and its outcome acted upon.
AttemptOver(a) == a < NumAttempts \/ pc \in {"loop", "exit"}

\* ---------------------------------------------------------------- C1
\* C1: an attempt that was started and whose every XAxiDma_Busy call
\* returned true never makes more than POLL_TIMEOUT_COUNTER checks, is
\* reported as timed out only after exactly POLL_TIMEOUT_COUNTER checks,
\* and once it is over it has been reported as timed out.
C1_TimeoutAfterExactlyBudget ==
    \A a \in Attempts :
        (Started(a) /\ AllBusy(a)) =>
            /\ Checks(a) <= POLL_TIMEOUT_COUNTER
            /\ TimedOut(a) => Checks(a) = POLL_TIMEOUT_COUNTER
            /\ AttemptOver(a) =>
                   (TimedOut(a) /\ Checks(a) = POLL_TIMEOUT_COUNTER)

C1_Witness ==
    \E a \in Attempts :
        /\ Started(a) /\ AllBusy(a) /\ TimedOut(a)
        /\ Checks(a) = POLL_TIMEOUT_COUNTER

\* ---------------------------------------------------------------- C2
\* C2: when XAxiDma_Busy first returns false on the k-th check of an
\* attempt, the completion message follows that check at once, the attempt
\* makes no further check or wait (k checks, k-1 waits in all), and the
\* budget keeps the value POLL_TIMEOUT_COUNTER - (k-1) it had at that check;
\* for k = 1 no wait happened and the budget is untouched.
FirstFalse(a) == CHOOSE j \in InAttempt(a, "Busy_false") :
                     \A k \in InAttempt(a, "Busy_false") : j <= k

C2_ImmediateCompletion ==
    \A a \in Attempts :
        ~AllBusy(a) =>
            LET p == FirstFalse(a)
                k == Checks(a)
            IN  /\ trace[p + 1] = "transfer_completed"
                /\ CountIn(a, "Busy_false") = 1
                /\ Completed(a)
                /\ \A j \in InAttempt(a, "Busy_true") \cup InAttempt(a, "usleep") :
                       j < p
                /\ k \in 1..POLL_TIMEOUT_COUNTER
                /\ Waits(a) = k - 1
                /\ (a = NumAttempts) => TimeOut = POLL_TIMEOUT_COUNTER - (k - 1)
                /\ (a = NumAttempts /\ k = 1) =>
                       (TimeOut = POLL_TIMEOUT_COUNTER /\ Waits(a) = 0)

C2_Witness ==
    /\ pc = "check"
    /\ \E a, b \in Attempts :
        /\ ~AllBusy(a) /\ Checks(a) = 1 /\ Waits(a) = 0
        /\ ~AllBusy(b) /\ Checks(b) = POLL_TIMEOUT_COUNTER
        /\ b = NumAttempts /\ TimeOut = 1

\* ---------------------------------------------------------------- C3
\* C3: every attempt before the latest one has ended as completed (its
\* completion seen through XAxiDma_Busy returning false), and at every
\* SimpleTransfer call the engine was not busy with an earlier transfer.
C3_Serialization ==
    /\ \A a \in Attempts :
           a < NumAttempts => (Completed(a) /\ CountIn(a, "Busy_false") = 1)
    /\ \A k \in 1..Len(starts) : ~starts[k].engineWasBusy
    /\ Cardinality({a \in Attempts : Started(a) /\ ~Completed(a) /\ ~TimedOut(a)}) <= 1

C3_Witness ==
    /\ Len(starts) >= 2
    /\ NumAttempts >= 2
    /\ pc = "poll"
    /\ engineBusy

\* ---------------------------------------------------------------- C4
\* C4: before every SimpleTransfer call the cache flush has been made, the
\* flush came after all IMG_LENGTH writes of the copy loop, and the memory
\* the engine reads holds what the processor wrote.
C4_FlushBeforeStart ==
    /\ \A f \in Positions("DCacheFlushRange") :
           /\ Cardinality({w \in Positions("write") : w < f}) = IMG_LENGTH
           /\ \A w \in Positions("write") : w < f
    /\ \A s \in Positions("SimpleTransfer") :
           \E f \in Positions("DCacheFlushRange") : f < s
    /\ \A k \in 1..Len(starts) : starts[k].payload = TxBuffer

C4_Witness ==
    /\ Occurs("SimpleTransfer")
    /\ Len(starts) >= 1
    /\ \E k \in BufIdx : TxBuffer[k] # 0

\* ---------------------------------------------------------------- C5
\* The messages the diagnostic sink has received, in order.
IsSinkMessage(e) == e \in SinkMessages
SinkLog == SelectSeq(trace, IsSinkMessage)
FailureEvents == {"dma_config_missing", "dma_init_failed",
                  "transfer_start_failed", "transfer_timed_out"}
\* No failure has been reported so far (the run is a run of Scenario A).
NoFailureSoFar == \A e \in FailureEvents : ~Occurs(e)

C6_TimeoutIsFatal ==
    \A p \in Positions("transfer_timed_out") :
        /\ p = Len(trace)
        /\ pc = "exit"
        /\ ret = "XST_FAILURE"

C6_Witness ==
    /\ Occurs("transfer_timed_out")
    /\ pc = "exit"
    /\ ~engineBusy

\* ---------------------------------------------------------------- C7
IsStatusEvent(e) == e \in StatusEvents
IsDriverCall(e) == e \in DriverCalls

\* C7: once the lookup has returned NULL, the status events are exactly one
\* dma_config_missing, the only driver call ever made is the lookup, the
\* buffer is untouched and main has returned XST_FAILURE.
C7_ConfigMissingHalts ==
    (pc # "lookup" /\ DMA_Cfg = "NULL") =>
        /\ SelectSeq(trace, IsStatusEvent) = <<"dma_config_missing">>
        /\ SelectSeq(trace, IsDriverCall) = <<"LookupConfig">>
        /\ trace[Len(trace)] = "dma_config_missing"
        /\ pc = "exit" /\ ret = "XST_FAILURE"
        /\ AxiDma = "uninitialized"
        /\ starts = <<>>
        /\ TxBuffer = [k \in BufIdx |-> 0]

C7_Witness ==
    /\ DMA_Cfg = "NULL"
    /\ pc = "exit"
    /\ Occurs("dma_config_missing")

\* ---------------------------------------------------------------- C8
AfterInitCalls == {"write", "DCacheFlushRange", "SimpleTransfer",
                   "Busy_true", "Busy_false", "usleep"}

\* C8: CfgInitialize is called at most once; every SimpleTransfer call comes
\* after a lookup that found the configuration and after dma_init_ok, on an
\* initialised instance; the copy loop is entered only with status
\* XST_SUCCESS; a dma_init_failed message ends the run with no population,
\* flush, transfer start or busy check ever made.
C8_InitOncePrecedesTransfers ==
    /\ Cardinality(Positions("CfgInitialize")) <= 1
    /\ Cardinality(Positions("dma_init_ok"))
           + Cardinality(Positions("dma_init_failed"))
         = Cardinality(Positions("CfgInitialize"))
    /\ \A s \in Positions("SimpleTransfer") :
           /\ DMA_Cfg = "cfg"
           /\ AxiDma = "initialized"
           /\ \E l \in Positions("LookupConfig"), c \in Positions("CfgInitialize"),
                 k \in Positions("dma_init_ok") : l < c /\ c < k /\ k < s
    /\ pc = "copy" => (status = XST_SUCCESS /\ Occurs("dma_init_ok"))
    /\ \A p \in Positions("dma_init_failed") :
           /\ p = Len(trace)
           /\ trace[p - 1] = "CfgInitialize"
           /\ pc = "exit" /\ ret = "XST_FAILURE"
           /\ status # XST_SUCCESS
           /\ \A e \in AfterInitCalls : ~Occurs(e)
           /\ starts = <<>>

C8_Witness ==
    /\ Occurs("dma_init_failed")
    /\ status = XST_INVALID_PARAM
    /\ pc = "exit"

\* ---------------------------------------------------------------- C9
\* C9: a transfer_start_failed message directly follows the rejected
\* SimpleTransfer call and is the last entry of the history (no busy check,
\* no completion or timeout message, no further start); main has returned
\* XST_FAILURE; and polling goes on only for a start that returned
\* XST_SUCCESS.
C9_StartRejectionIsFatal ==
    /\ \A p \in Positions("transfer_start_failed") :
           /\ p = Len(trace)
           /\ trace[p - 1] = "SimpleTransfer"
           /\ Checks(AttemptOf(p)) = 0
           /\ ~Completed(AttemptOf(p)) /\ ~TimedOut(AttemptOf(p))
           /\ pc = "exit" /\ ret = "XST_FAILURE"
           /\ status # XST_SUCCESS
    /\ pc \in {"poll", "wait", "check"} => status = XST_SUCCESS
    /\ \A a \in Attempts : Checks(a) > 0 => Started(a)

C9_Witness ==
    /\ Occurs("transfer_start_failed")
    /\ NumAttempts >= 2
    /\ status = XST_INVALID_PARAM

\* --------------------------------------------------------------- C10
LoopPositions == {"loop", "poll", "wait", "check", "exit"}

\* C10: once the service loop is entered no step changes TxBuffer or the
\* memory behind it, and every SimpleTransfer call is made with the address
\* of TxBuffer, IMG_LENGTH * sizeof(uint32_t) bytes and direction
\* memory-to-device, so the engine is handed the same payload every time.
C10_PayloadImmutable ==
    /\ [][(pc \in LoopPositions) => (TxBuffer' = TxBuffer /\ mem' = mem)]_vars
    /\ [](\A k \in 1..Len(starts) :
            /\ starts[k].args.addr = "TxBuffer"
            /\ starts[k].args.len = IMG_LENGTH * WordSize
            /\ starts[k].args.dir = "XAXIDMA_DMA_TO_DEVICE"
            /\ starts[k].args = starts[1].args
            /\ starts[k].payload = starts[1].payload)

C10_Witness ==
    /\ Len(starts) >= 2
    /\ starts[2].payload = starts[1].payload
    /\ \E k \in BufIdx : starts[2].payload[k] # 0

\* --------------------------------------------------------------- C11
\* C11: during the copy loop the words already copied equal the source
\* words; once the loop has finished every word of TxBuffer equals the word
\* of hex_values at the same index, and the memory handed to the engine at
\* every SimpleTransfer call holds exactly the source payload.
C11_PayloadFidelity ==
    /\ pc = "copy" => \A k \in BufIdx : k < i => TxBuffer[k] = hex_values[k]
    /\ (pc \in LoopPositions /\ Occurs("DCacheFlushRange")) =>
           \A k \in BufIdx : TxBuffer[k] = hex_values[k]
    /\ \A n \in 1..Len(starts) :
           \A k \in BufIdx : starts[n].payload[k] = hex_values[k]

C11_Witness ==
    /\ Len(starts) >= 2
    /\ \E j, k \in BufIdx : hex_values[j] # hex_values[k]
    /\ \A k \in BufIdx : TxBuffer[k] = hex_values[k]

\* ------------------------------------- the service loop without an end
\* The history kept across a new SimpleTransfer call when runs of any
\* length are explored: the entries from the previous SimpleTransfer call on
\* (everything, before the second call), and the record of the previous call.
LastStartPos == CHOOSE j \in Positions("SimpleTransfer") :
                    \A k \in Positions("SimpleTransfer") : k <= j
RecentTrace == IF Occurs("SimpleTransfer")
               THEN SubSeq(trace, LastStartPos, Len(trace))
               ELSE trace
RecentStarts == IF starts = <<>> THEN <<>> ELSE <<starts[Len(starts)]>>

\* main.c:55-65  XAxiDma_SimpleTransfer, its status check, budget reset;
\* the step of SimpleTransfer with no limit on the number of calls.
SimpleTransferUnbounded ==
    /\ pc = "loop"
    /\ starts' = Append(RecentStarts, [args |-> TransferArgs, payload |-> mem,
                                       engineWasBusy |-> engineBusy])
    /\ \E s \in StatusCodes :
        /\ status' = s
        /\ IF StartFailed(s)
           THEN /\ trace' = RecentTrace \o
                               <<"SimpleTransfer", "transfer_start_failed">>
                /\ pc' = "exit"
                /\ ret' = "XST_FAILURE"
                /\ UNCHANGED <<TimeOut, engineBusy>>
           ELSE /\ trace' = Append(RecentTrace, "SimpleTransfer")
                /\ engineBusy' = TRUE
                /\ TimeOut' = InitialBudget
                /\ pc' = "poll"
                /\ ret' = ret
    /\ UNCHANGED <<DMA_Cfg, AxiDma, i, hex_values, TxBuffer, mem>>

\* The steps of main(): everything but the engine.
MainStep ==
    \/ LookupConfig
    \/ CfgInitialize
    \/ CopyWord
    \/ DCacheFlushRange
    \/ SimpleTransferUnbounded
    \/ PollBusy
    \/ DecrementAndSleep
    \/ CheckTimeOut

LiveNext ==
    \/ MainStep
    \/ EngineDone

\* main() is the only thread and every call it makes returns, so it always
\* takes its next step; nothing is assumed of the engine.
LiveSpec == Init /\ [][LiveNext]_vars /\ WF_vars(MainStep)

\* --------------------------------------------------------------- C12
LastEntryIs(e) == Len(trace) > 0 /\ trace[Len(trace)] = e
StartPos(a) == CHOOSE j \in Positions("SimpleTransfer") : AttemptOf(j) = a
\* Something the scenario of C12 excludes has happened: the lookup or the
\* initialisation failed, a start was rejected, or the engine was still busy
\* at every budgeted check of an attempt.
ScenarioBroken ==
    \/ Occurs("dma_config_missing")
    \/ Occurs("dma_init_failed")
    \/ Occurs("transfer_start_failed")
    \/ \E a \in Attempts : AllBusy(a) /\ Checks(a) = POLL_TIMEOUT_COUNTER
JustStarted == pc = "poll" /\ LastEntryIs("SimpleTransfer")
JustCompleted == pc = "check" /\ LastEntryIs("transfer_completed")

\* C12: between the completion message of an attempt and the next
\* SimpleTransfer call there is nothing but the "image sent" message (no
\* write to the buffer, no flush, no wait), and the buffer is the same at
\* both calls; and in every run in which lookup and initialisation succeed,
\* no start is rejected and no attempt finds the engine busy at all its
\* budgeted checks, main never returns and transfers are started and
\* completed again and again without end.
C12_ContinuousLoop ==
    /\ [](\A a \in Attempts :
            a < NumAttempts =>
                /\ Completed(a)
                /\ \A c \in InAttempt(a, "transfer_completed") :
                       /\ trace[c + 1] = "image_sent"
                       /\ StartPos(a + 1) = c + 2)
    /\ [](\A n \in 1..Len(starts) : starts[n].payload = starts[1].payload)
    /\ ([]~ScenarioBroken) =>
           /\ [](pc # "exit")
           /\ []<>JustStarted
           /\ []<>JustCompleted

C12_Witness ==
    /\ NumAttempts = 2
    /\ Completed(1) /\ Completed(2)
    /\ ~ScenarioBroken
    /\ pc = "loop"

\* --------------------------------------------------------------- C13
\* C13: whenever the timeout message is printed the engine is still busy
\* with the attempt, also when the transfer ends during the wait after the
\* last budgeted check.
C13_TimeoutOnlyWhileBusy ==
    [][(Len(trace') > Len(trace) /\ trace'[Len(trace')] = "transfer_timed_out")
          => engineBusy]_vars

\* --------------------------------------------------------------- C14
NumWrites == Cardinality(Positions("write"))
NumFlushes == Cardinality(Positions("DCacheFlushRange"))

\* C14: the buffer is populated at most once (IMG_LENGTH writes in all) and
\* flushed at most once, always before the first SimpleTransfer call;
\* without a successful initialisation neither happens, and once the copy
\* loop is left after a successful initialisation both have happened
\* exactly once, however many transfers follow.
C14_OneTimeSetup ==
    /\ NumWrites <= IMG_LENGTH
    /\ NumFlushes <= 1
    /\ \A s \in Positions("SimpleTransfer") :
           \A p \in Positions("write") \cup Positions("DCacheFlushRange") : p < s
    /\ ~Occurs("dma_init_ok") => (NumWrites = 0 /\ NumFlushes = 0)
    /\ (Occurs("dma_init_ok") /\ pc # "copy") =>
           (NumWrites = IMG_LENGTH /\ NumFlushes = 1)
    /\ pc = "copy" => (NumWrites = i /\ NumFlushes = 0 /\ NumAttempts = 0)

C14_Witness ==
    /\ NumAttempts >= 3
    /\ Completed(1) /\ Completed(2)
    /\ NumWrites = IMG_LENGTH
    /\ NumFlushes = 1

\* --------------------------------------------------------------- C15
\* C15: a started attempt never gets both a completion and a timeout
\* message; once its poll loop is over it has exactly one of them; it has
\* the timeout message exactly when all POLL_TIMEOUT_COUNTER checks returned
\* true; an attempt whose first false answer came at the last budgeted check
\* is completed, not timed out, and the service loop goes on with the
\* "image sent" message.
C15_OutcomeExclusive ==
    \A a \in Attempts :
        Started(a) =>
            /\ CountIn(a, "transfer_completed") + CountIn(a, "transfer_timed_out") <= 1
            /\ AttemptOver(a) => (Completed(a) /\ ~TimedOut(a)) \/ (TimedOut(a) /\ ~Completed(a))
            /\ TimedOut(a) => (AllBusy(a) /\ Checks(a) = POLL_TIMEOUT_COUNTER)
            /\ (AttemptOver(a) /\ AllBusy(a)) => TimedOut(a)
            /\ (~AllBusy(a) /\ Checks(a) = POLL_TIMEOUT_COUNTER) =>
                   /\ Completed(a) /\ ~TimedOut(a)
                   /\ AttemptOver(a) =>
                          (CountIn(a, "image_sent") = 1 /\ (a = NumAttempts => pc = "loop"))

C15_Witness ==
    /\ pc = "loop"
    /\ TimeOut = 1
    /\ NumAttempts >= 1
    /\ ~AllBusy(NumAttempts)
    /\ Checks(NumAttempts) = POLL_TIMEOUT_COUNTER
    /\ Completed(NumAttempts)
    /\ CountIn(NumAttempts, "image_sent") = 1

\* --------------------------------------------------------------- C16
\* C16: TimeOut stays within 0..POLL_TIMEOUT_COUNTER; it grows only at a
\* SimpleTransfer call, which sets it to the full budget; within a started
\* attempt it equals the full budget less the waits made; every busy answer
\* is followed by one decrement-and-wait and every wait follows a busy
\* answer; no attempt makes more than POLL_TIMEOUT_COUNTER checks.
C16_BoundedPollLoop ==
    /\ [](TimeOut \in 0..POLL_TIMEOUT_COUNTER)
    /\ [][TimeOut' > TimeOut =>
            (Len(starts') > Len(starts) /\ TimeOut' = POLL_TIMEOUT_COUNTER)]_vars
    /\ [][(Len(starts') > Len(starts) /\ pc' = "poll") =>
            TimeOut' = POLL_TIMEOUT_COUNTER]_vars
    /\ [](\A a \in Attempts :
            /\ Checks(a) <= POLL_TIMEOUT_COUNTER
            /\ Waits(a) <= POLL_TIMEOUT_COUNTER
            /\ Waits(a) = CountIn(a, "Busy_true")
                            - (IF a = NumAttempts /\ pc = "wait" THEN 1 ELSE 0)
            /\ (a = NumAttempts /\ Started(a)) =>
                   TimeOut = POLL_TIMEOUT_COUNTER - Waits(a))
    /\ [](\A u \in Positions("usleep") : trace[u - 1] = "Busy_true")
    /\ [](\A b \in Positions("Busy_true") :
            b < Len(trace) => trace[b + 1] = "usleep")

C16_Witness ==
    /\ NumAttempts >= 2
    /\ Waits(1) >= 1
    /\ Completed(1)
    /\ pc = "poll"
    /\ TimeOut = 0
    /\ Waits(NumAttempts) = POLL_TIMEOUT_COUNTER

\* --------------------------------------------------------------- C17
ServiceLoopPositions == {"loop", "poll", "wait", "check"}

\* C17: main never reaches the idle loop of main.c:83 nor the return 0 of
\* main.c:87; once a transfer has been attempted main is either still in the
\* service loop or has returned XST_FAILURE right after the start-rejection
\* or the timeout message; every return of main is a return of XST_FAILURE
\* that directly follows a failure message.
C17_HaltIsFailureReturn ==
    /\ pc # "idle"
    /\ ret \in {"none", "XST_FAILURE"}
    /\ (pc = "exit") <=> (ret = "XST_FAILURE")
    /\ pc = "exit" => (Len(trace) > 0 /\ trace[Len(trace)] \in FailureEvents)
    /\ NumAttempts >= 1 =>
           \/ pc \in ServiceLoopPositions
           \/ /\ pc = "exit"
              /\ trace[Len(trace)] \in {"transfer_start_failed", "transfer_timed_out"}
    /\ (Len(trace) > 0 /\ trace[Len(trace)] \in FailureEvents) => pc = "exit"

C17_Witness ==
    /\ pc = "exit"
    /\ ret = "XST_FAILURE"
    /\ NumAttempts >= 2
    /\ Completed(1)
    /\ LastEntryIs("transfer_timed_out")

====
